---------------------------- MODULE Spec2Model ----------------------------
(***************************************************************************)
(* prepare-commit-msg hook of go-githooks (cmd/prepare-commit-msg).        *)
(*                                                                         *)
(* Byte strings are sequences of one-character strings.  Two elements are  *)
(* atoms that stand for a fixed run of bytes without white space:          *)
(*   "K"  the trailer key  Co-authored-by:   as git-mob prints it          *)
(*   "k"  the same key in another letter case (co-authored-by:)            *)
(* The key is followed by a real " " element, as in the source text.       *)
(***************************************************************************)
EXTENDS Integers, Sequences, FiniteSets, TLC

-----------------------------------------------------------------------------
(* Bounds of the model *)

\* a commit message file holds at most MaxLines lines
MaxLines == 3

\* a method of one options object is called at most MaxCalls times in a row
MaxCalls == 2

-----------------------------------------------------------------------------
(* Package-level byte slices *)

empty == << >>
space == <<" ">>
nl    == <<"\n">>

-----------------------------------------------------------------------------
(* Standard library: bytes / strings / fmt / regexp *)

\* unicode.IsSpace restricted to the bytes that occur in the model
WhiteSpace == {" ", "\n", "\t"}

Min(S) == CHOOSE x \in S : \A y \in S : x <= y
Max(S) == CHOOSE x \in S : \A y \in S : x >= y

\* bytes.TrimSpace / strings.TrimSpace
TrimSpace(s) ==
    LET keep == {i \in 1..Len(s) : s[i] \notin WhiteSpace}
    IN  IF keep = {} THEN empty ELSE SubSeq(s, Min(keep), Max(keep))

\* bytes.HasPrefix
HasPrefix(s, p) == Len(p) <= Len(s) /\ SubSeq(s, 1, Len(p)) = p

\* strings.Index: 0-based position of the first occurrence of sub, -1 if none
Index(s, sub) ==
    LET at == {i \in 1..(Len(s) - Len(sub) + 1) : SubSeq(s, i, i + Len(sub) - 1) = sub}
    IN  IF at = {} THEN -1 ELSE Min(at) - 1

\* bytes.Join(parts, empty)
RECURSIVE Join(_)
Join(parts) == IF parts = << >> THEN empty ELSE Head(parts) \o Join(Tail(parts))

\* strings.Split(s, sep) for a one-byte separator
RECURSIVE Split(_, _)
Split(s, sep) ==
    LET at == {i \in 1..Len(s) : s[i] = sep}
    IN  IF at = {} THEN <<s>>
        ELSE <<SubSeq(s, 1, Min(at) - 1)>> \o Split(SubSeq(s, Min(at) + 1, Len(s)), sep)

\* fmt.Sprintf(format, arg) with one string operand.  Verbs: %s prints the
\* operand, %% prints a percent sign, any other verb byte is a bad verb;
\* a second %s finds no operand; an operand no verb used is reported at the end.
BadVerb(v, arg)  == <<"%", "!", v, "(", "s", "t", "r", "i", "n", "g", "=">> \o arg \o <<")">>
MissingArg(v)    == <<"%", "!", v, "(", "M", "I", "S", "S", "I", "N", "G", ")">>
NoVerb           == <<"%", "!", "(", "N", "O", "V", "E", "R", "B", ")">>
ExtraArg(arg)    == <<"%", "!", "(", "E", "X", "T", "R", "A", " ",
                      "s", "t", "r", "i", "n", "g", "=">> \o arg \o <<")">>

RECURSIVE SprintfFrom(_, _, _, _)
SprintfFrom(format, arg, i, used) ==
    IF i > Len(format) THEN (IF used THEN empty ELSE ExtraArg(arg))
    ELSE IF format[i] # "%" THEN <<format[i]>> \o SprintfFrom(format, arg, i + 1, used)
    ELSE IF i = Len(format) THEN NoVerb \o SprintfFrom(format, arg, i + 1, used)
    ELSE IF format[i + 1] = "%" THEN <<"%">> \o SprintfFrom(format, arg, i + 2, used)
    ELSE IF used THEN MissingArg(format[i + 1]) \o SprintfFrom(format, arg, i + 2, used)
    ELSE IF format[i + 1] = "s" THEN arg \o SprintfFrom(format, arg, i + 2, TRUE)
    ELSE BadVerb(format[i + 1], arg) \o SprintfFrom(format, arg, i + 2, TRUE)

Sprintf(format, arg) == SprintfFrom(format, arg, 1, FALSE)

\* regexp (?im)^co-authored-by: [^>]+>
\* CoauthorMatchEnd(s, i) is the last position of the match that starts at
\* position i, or 0 when the expression does not match there.  ^ holds at the
\* start of the text and after every "\n"; [^>] also matches "\n".
CoauthorKey == {"K", "k"}

CoauthorMatchEnd(s, i) ==
    IF /\ (i = 1 \/ s[i - 1] = "\n")
       /\ i + 1 <= Len(s)
       /\ s[i] \in CoauthorKey
       /\ s[i + 1] = " "
    THEN LET gt == {j \in (i + 2)..Len(s) : s[j] = ">"}
         IN  IF gt # {} /\ Min(gt) >= i + 3 THEN Min(gt) ELSE 0
    ELSE 0

\* re.ReplaceAll(s, empty): every non-overlapping match, left to right, removed
RECURSIVE ReplaceAllFrom(_, _)
ReplaceAllFrom(s, i) ==
    IF i > Len(s) THEN empty
    ELSE LET e == CoauthorMatchEnd(s, i)
         IN  IF e > 0 THEN ReplaceAllFrom(s, e + 1)
             ELSE <<s[i]>> \o ReplaceAllFrom(s, i + 1)

ReplaceAll(s) == ReplaceAllFrom(s, 1)

-----------------------------------------------------------------------------
(* Inputs of the model *)

\* the formatted default prefix for branch b, and text used in messages
BranchB     == <<"b">>
BranchMain  == <<"m", "a", "i", "n">>
BranchDev   == <<"d", "e", "v", "e", "l", "o", "p">>

DefaultTemplate == <<"[", "%", "s", "]">>

\* a template with trailing white space and one whose prefix starts with '#'
Templates == {DefaultTemplate, <<"[", "%", "s", "]", " ">>, <<"#", "%", "s">>}

\* well-formed trailers  Co-authored-by: Name <email>
TrailerZoe  == <<"K", " ", "Z", " ", "<", "z", ">">>
TrailerMal  == <<"K", " ", "M", " ", "<", "m", ">">>
\* the first one in another letter case of the key
TrailerZoeLower == <<"k", " ", "Z", " ", "<", "z", ">">>

\* lines a commit message file is made of
MessageLines ==
    { empty,
      <<"a">>,                              \* body text
      <<"[", "b", "]", " ", "a">>,          \* body text that carries the prefix of branch b
      <<"[", "b", "]">>,                    \* the prefix of branch b and nothing else
      <<"#", " ", "c">>,                    \* git comment line
      <<"#", " ">>,                         \* comment line with nothing after "# "
      <<"#", " ", "<", "c", ">">>,          \* comment line with an address in it
      <<"a", " ", "#", " ", "1">>,          \* body text with "# " inside the line
      TrailerZoe, TrailerMal, TrailerZoeLower,
      <<"K", " ", "M">> }                   \* trailer-like line without closing '>'

\* all texts of at most n lines, the lines separated by "\n"
RECURSIVE TextsOf(_)
TextsOf(n) ==
    IF n = 0 THEN {empty}
    ELSE LET shorter == TextsOf(n - 1)
         IN  shorter \cup MessageLines
                     \cup {t \o nl \o l : t \in shorter, l \in MessageLines}

Messages == TextsOf(MaxLines)

\* what `git mob-print` hands over, and blocks a test injects untrimmed
CoauthorBlocks ==
    { TrailerZoe,
      TrailerZoe \o nl \o TrailerMal,
      nl \o TrailerMal \o nl,
      <<"\n", " ">> }                       \* white space and nothing else

\* Repo.Head(): an error, or a reference whose short name is name
HeadError       == [ok |-> FALSE, name |-> empty]
HeadOf(name)    == [ok |-> TRUE, name |-> name]
Heads           == {HeadError, HeadOf(empty), HeadOf(BranchB), HeadOf(BranchMain)}

-----------------------------------------------------------------------------
(* The message transformer *)

\* prependBranchName without the look for a prefix that is already there
prependBranchNameAlwaysPrefixing(msg, template, head) ==
    IF ~head.ok THEN msg
    ELSE IF head.name = empty THEN msg
    ELSE LET trimmed    == TrimSpace(msg)
             trimmedMsg == IF HasPrefix(trimmed, <<"#">>)
                           THEN Join(<<nl, nl, trimmed>>)
                           ELSE trimmed
         IN  Join(<<Sprintf(template, head.name), space, trimmedMsg, nl, nl>>)

\* prependBranchName without the check of the empty branch name
prependBranchNameAnyBranch(msg, template, head) ==
    IF ~head.ok THEN msg
    ELSE LET branchPrefix == TrimSpace(Sprintf(template, head.name))
             trimmed      == TrimSpace(msg)
             trimmedMsg   == IF HasPrefix(trimmed, <<"#">>)
                             THEN Join(<<nl, nl, trimmed>>)
                             ELSE trimmed
         IN  IF ~HasPrefix(trimmedMsg, branchPrefix)
             THEN Join(<<Sprintf(template, head.name), space, trimmedMsg, nl, nl>>)
             ELSE Join(<<trimmedMsg, nl, nl>>)

\* prependBranchName without the blank line it ends the message with
prependBranchNameSingleLine(msg, template, head) ==
    IF ~head.ok THEN msg
    ELSE IF head.name = empty THEN msg
    ELSE LET branchPrefix == TrimSpace(Sprintf(template, head.name))
             trimmed      == TrimSpace(msg)
             trimmedMsg   == IF HasPrefix(trimmed, <<"#">>)
                             THEN Join(<<nl, nl, trimmed>>)
                             ELSE trimmed
         IN  IF ~HasPrefix(trimmedMsg, branchPrefix)
             THEN Join(<<Sprintf(template, head.name), space, trimmedMsg>>)
             ELSE trimmedMsg

\* prependBranchName without the separator before a message of comments
prependBranchNameNoSeparator(msg, template, head) ==
    IF ~head.ok THEN msg
    ELSE IF head.name = empty THEN msg
    ELSE LET branchPrefix == TrimSpace(Sprintf(template, head.name))
             trimmedMsg   == TrimSpace(msg)
         IN  IF ~HasPrefix(trimmedMsg, branchPrefix)
             THEN Join(<<Sprintf(template, head.name), space, trimmedMsg, nl, nl>>)
             ELSE Join(<<trimmedMsg, nl, nl>>)

\* prependBranchName: the new CommitMessageBytes
prependBranchName(msg, template, head) ==
    IF ~head.ok THEN msg
    ELSE IF head.name = empty THEN msg
    ELSE LET branchPrefix == TrimSpace(Sprintf(template, head.name))
             trimmed      == TrimSpace(msg)
             trimmedMsg   == IF HasPrefix(trimmed, <<"#">>)
                             THEN Join(<<nl, nl, trimmed>>)
                             ELSE trimmed
         IN  IF ~HasPrefix(trimmedMsg, branchPrefix)
             THEN Join(<<Sprintf(template, head.name), space, trimmedMsg, nl, nl>>)
             ELSE Join(<<trimmedMsg, nl, nl>>)

\* prependBranchName: TRUE when it returns an error
prependBranchNameFails(head) == ~head.ok

\* appendCoauthorMarkup without the removal of the trailers in the message
appendCoauthorMarkupKeepingTrailers(msg, coauthors) ==
    IF Len(coauthors) = 0 THEN msg
    ELSE LET cleanedB   == TrimSpace(msg)
             coauthorsB == TrimSpace(coauthors)
             commentPos == Index(cleanedB, <<"#", " ">>)
         IN  IF commentPos > -1
             THEN LET gitMessage  == TrimSpace(SubSeq(cleanedB, 1, commentPos))
                      gitComments == SubSeq(cleanedB, commentPos + 1, Len(cleanedB))
                  IN  Join(<<gitMessage, nl, nl, coauthorsB, nl, nl, gitComments>>)
             ELSE Join(<<cleanedB, nl, nl, coauthorsB, nl, nl>>)

\* appendCoauthorMarkup cleaning the message before it looks at the block
appendCoauthorMarkupAlwaysCleaning(msg, coauthors) ==
    LET cleanedB   == TrimSpace(ReplaceAll(msg))
        coauthorsB == TrimSpace(coauthors)
        commentPos == Index(cleanedB, <<"#", " ">>)
    IN  IF Len(coauthors) = 0 THEN cleanedB
        ELSE IF commentPos > -1
        THEN LET gitMessage  == TrimSpace(SubSeq(cleanedB, 1, commentPos))
                 gitComments == SubSeq(cleanedB, commentPos + 1, Len(cleanedB))
             IN  Join(<<gitMessage, nl, nl, coauthorsB, nl, nl, gitComments>>)
        ELSE Join(<<cleanedB, nl, nl, coauthorsB, nl, nl>>)

\* appendCoauthorMarkup putting the block at the end, after the comments
appendCoauthorMarkupAtTheEnd(msg, coauthors) ==
    IF Len(coauthors) = 0 THEN msg
    ELSE Join(<<TrimSpace(ReplaceAll(msg)), nl, nl, TrimSpace(coauthors), nl, nl>>)

\* appendCoauthorMarkup: the new CommitMessageBytes
appendCoauthorMarkup(msg, coauthors) ==
    IF Len(coauthors) = 0 THEN msg
    ELSE LET cleanedB   == TrimSpace(ReplaceAll(msg))
             coauthorsB == TrimSpace(coauthors)
             commentPos == Index(cleanedB, <<"#", " ">>)
         IN  IF commentPos > -1
             THEN LET gitMessage  == TrimSpace(SubSeq(cleanedB, 1, commentPos))
                      gitComments == SubSeq(cleanedB, commentPos + 1, Len(cleanedB))
                  IN  Join(<<gitMessage, nl, nl, coauthorsB, nl, nl, gitComments>>)
             ELSE Join(<<cleanedB, nl, nl, coauthorsB, nl, nl>>)

-----------------------------------------------------------------------------
(* Configuration helpers: env_helpers.go, repo_config_helpers.go *)

\* strconv.ParseBool: the literals it accepts
TrueWords  == { <<"1">>, <<"t">>, <<"T">>, <<"T", "R", "U", "E">>,
                <<"t", "r", "u", "e">>, <<"T", "r", "u", "e">> }
FalseWords == { <<"0">>, <<"f">>, <<"F">>, <<"F", "A", "L", "S", "E">>,
                <<"f", "a", "l", "s", "e">>, <<"F", "a", "l", "s", "e">> }

ParseBoolFails(v) == v \notin TrueWords \cup FalseWords
ParseBool(v)      == v \in TrueWords

\* os.Getenv yields "" for a variable that is not set
getEnvOrDefaultString(v, defaultValue) == IF v # empty THEN v ELSE defaultValue

\* panics on a value that is no boolean: see getEnvOrDefaultBoolPanics
getEnvOrDefaultBool(v, defaultValue) == IF v # empty THEN ParseBool(v) ELSE defaultValue
getEnvOrDefaultBoolPanics(v)         == v # empty /\ ParseBoolFails(v)

getEnvOrDefaultStringSlice(v, defaults) == IF v # empty THEN Split(v, ",") ELSE defaults

\* c is the configuration of the repository: does it hold the section
\* go-githooks, in it the subsection prepare-commit-message, and which
\* options does that hold (an option is << >> when the key is missing and
\* <<value>> when it is there)
getRepoConfigOptionOrDefaultStringNoFallback(c, key, defaultValue) ==
    IF ~c.section THEN defaultValue
    ELSE IF ~c.subsection THEN defaultValue
    ELSE IF c.options[key] # << >> THEN c.options[key][1]
    ELSE empty

getRepoConfigOptionOrDefaultString(c, key, defaultValue) ==
    IF ~c.section THEN defaultValue
    ELSE IF ~c.subsection THEN defaultValue
    ELSE IF c.options[key] # << >> THEN c.options[key][1]
    ELSE defaultValue

getRepoConfigOptionOrDefaultBool(c, key, defaultValue) ==
    LET v == getRepoConfigOptionOrDefaultString(c, key, empty)
    IN  IF v # empty THEN ParseBool(v) ELSE defaultValue

getRepoConfigOptionOrDefaultBoolPanics(c, key) ==
    LET v == getRepoConfigOptionOrDefaultString(c, key, empty)
    IN  v # empty /\ ParseBoolFails(v)

getRepoConfigOptionOrDefaultSlice(c, key, defaultValues) ==
    LET v == getRepoConfigOptionOrDefaultString(c, key, empty)
    IN  IF v # empty THEN Split(v, ",") ELSE defaultValues

\* helpers.go
stringInSlice(s, v) == \E i \in 1..Len(s) : s[i] = v

CommitMessageSourceFromString(s) ==
    CASE s = ""         -> "EmptySource"
      [] s = "message"  -> "MessageSource"
      [] s = "template" -> "TemplateSource"
      [] s = "merge"    -> "MergeSource"
      [] s = "squash"   -> "SquashSource"
      [] s = "commit"   -> "CommitSource"
      [] OTHER          -> "UnknownSource"

-----------------------------------------------------------------------------
(* Inputs of a run of the hook *)

MessageFile == "COMMIT_EDITMSG"

ArgLists ==
    { << >>,
      <<"version">>,
      <<"help">>,
      <<MessageFile>>,
      <<MessageFile, "message">>,
      <<MessageFile, "commit">>,
      <<MessageFile, "commit", "HEAD">>,
      <<MessageFile, "commit", "HEAD", "more">> }

EnvOf(enabled, exclusions, template) ==
    [enabled |-> enabled, exclusions |-> exclusions, template |-> template]

NoEnv == EnvOf(empty, empty, empty)

Envs ==
    { NoEnv,
      EnvOf(<<"t", "r", "u", "e">>, empty, empty),
      EnvOf(<<"f", "a", "l", "s", "e">>, empty, empty),
      EnvOf(<<"y", "e", "s">>, empty, empty),
      EnvOf(<<"t", "r", "u", "e">>, <<"b">>, empty),
      EnvOf(<<"1">>, empty, <<"%", "s", ":">>) }

OptionsOf(enabled, exclusions, template) ==
    [prefixWithBranch |-> enabled, prefixBranchExclusions |-> exclusions,
     prefixWithBranchTemplate |-> template]

NoOptions == OptionsOf(<< >>, << >>, << >>)

RepoConfigOf(readable, section, subsection, options) ==
    [readable |-> readable, section |-> section, subsection |-> subsection,
     options |-> options]

InSubsection(options) == RepoConfigOf(TRUE, TRUE, TRUE, options)

NoRepoConfig == RepoConfigOf(TRUE, FALSE, FALSE, NoOptions)

RepoConfigs ==
    { RepoConfigOf(FALSE, FALSE, FALSE, NoOptions),
      NoRepoConfig,
      RepoConfigOf(TRUE, TRUE, FALSE, NoOptions),
      InSubsection(NoOptions),
      InSubsection(OptionsOf(<< <<"t", "r", "u", "e">> >>, << >>, << >>)),
      InSubsection(OptionsOf(<< <<"f", "a", "l", "s", "e">> >>, << >>, << >>)),
      InSubsection(OptionsOf(<< empty >>, << empty >>, << empty >>)),
      InSubsection(OptionsOf(<< <<"o", "n">> >>, << >>, << >>)),
      InSubsection(OptionsOf(<< <<"t", "r", "u", "e">> >>,
                             << <<"b", ",", "x">> >>, << <<"#", "%", "s">> >>)) }

FileOf(state, content, writable) ==
    [state |-> state, content |-> content, writable |-> writable]

Files ==
    { FileOf("missing", empty, TRUE),
      FileOf("unreadable", empty, TRUE),
      FileOf("ok", <<"a">>, FALSE) }
    \cup { FileOf("ok", m, TRUE) :
             m \in { empty,
                     <<"a">>,
                     <<"[", "b", "]", " ", "a">>,
                     <<"\n", "#", " ", "c", "\n">>,
                     <<"a", "\n", "\n">> \o TrailerMal \o <<"\n", "#", " ", "c", "\n">> } }

\* `git mob-print`: it fails, or it prints stdout
MobOf(ok, stdout) == [ok |-> ok, stdout |-> stdout]

MobResults ==
    { MobOf(FALSE, empty),
      MobOf(TRUE, nl),
      MobOf(TRUE, TrailerZoe \o nl) }

-----------------------------------------------------------------------------
(* State *)

VARIABLES
    args,          \* os.Args[1:]
    env,           \* the three environment variables
    repoOpens,     \* does git.PlainOpen find the repository
    repoConfig,    \* what Repo.ConfigScoped answers
    head,          \* what Repo.Head() answers
    mob,           \* what `git mob-print` does
    file,          \* the commit message file on disk
    found,         \* the commit message file as the run found it
    o,             \* the PrepareCommitMsgOptions object
    pc,            \* the step the run is at
    io,            \* what the run did outside the process so far, oldest first:
                   \* "print", "PlainOpen", "read", "mob-print", "write"
    calls,         \* the transformer methods called so far, oldest first
    before,        \* o.CommitMessageBytes when the last of them was entered
    err            \* TRUE when the last method called on o returned an error

world == <<args, env, repoOpens, repoConfig, head, mob, found>>

vars == <<args, env, repoOpens, repoConfig, head, mob, found, file, o, pc, io, calls, before, err>>

\* NewOptions: every field but Repo has its zero value
NewOptions ==
    [ CommitMessageFile          |-> "",
      Source                     |-> "UnknownSource",
      CommitObject               |-> "",
      PrefixWithBranch           |-> FALSE,
      PrefixWithBranchExclusions |-> << >>,
      PrefixWithBranchTemplate   |-> empty,
      CommitMessageBytes         |-> empty,
      CoauthorsMarkupBytes       |-> empty ]

-----------------------------------------------------------------------------
(* Resolution of the options *)

setDefaultOptions(opts) ==
    [opts EXCEPT !.PrefixWithBranch = FALSE,
                 !.PrefixWithBranchExclusions = <<BranchMain, BranchDev>>,
                 !.PrefixWithBranchTemplate = DefaultTemplate]

overrideFromEnv(opts, e) ==
    [opts EXCEPT
       !.PrefixWithBranch = getEnvOrDefaultBool(e.enabled, opts.PrefixWithBranch),
       !.PrefixWithBranchExclusions =
           getEnvOrDefaultStringSlice(e.exclusions, opts.PrefixWithBranchExclusions),
       !.PrefixWithBranchTemplate =
           getEnvOrDefaultString(e.template, opts.PrefixWithBranchTemplate)]

overrideFromRepo(opts, c) ==
    IF ~c.readable THEN opts
    ELSE [opts EXCEPT
            !.PrefixWithBranch =
                getRepoConfigOptionOrDefaultBool(c, "prefixWithBranch", opts.PrefixWithBranch),
            !.PrefixWithBranchExclusions =
                getRepoConfigOptionOrDefaultSlice(c, "prefixBranchExclusions",
                                                  opts.PrefixWithBranchExclusions),
            !.PrefixWithBranchTemplate =
                getRepoConfigOptionOrDefaultString(c, "prefixWithBranchTemplate",
                                                   opts.PrefixWithBranchTemplate)]

\* Prepare taking a value that is no boolean for false
PrepareOutcomeLenient(a, e, c) ==
    IF ~(1 <= Len(a) /\ Len(a) <= 3) THEN "error"
    ELSE IF Len(a) = 2 /\ CommitMessageSourceFromString(a[2]) = "CommitSource" THEN "panic"
    ELSE IF ~c.readable THEN "exit"
    ELSE "ok"

\* how Prepare ends: "error" (returned), "exit" (checkError inside it),
\* "panic" (index out of range, or a value that is no boolean), "ok"
PrepareOutcome(a, e, c) ==
    IF ~(1 <= Len(a) /\ Len(a) <= 3) THEN "error"
    ELSE IF Len(a) = 2 /\ CommitMessageSourceFromString(a[2]) = "CommitSource" THEN "panic"
    ELSE IF ~c.readable THEN "exit"
    ELSE IF getEnvOrDefaultBoolPanics(e.enabled) THEN "panic"
    ELSE IF getRepoConfigOptionOrDefaultBoolPanics(c, "prefixWithBranch") THEN "panic"
    ELSE "ok"

\* the positional arguments, as far as Prepare gets with them
PreparePositional(opts, a) ==
    LET withFile   == [opts EXCEPT !.CommitMessageFile = a[1]]
        withSource == IF Len(a) > 1
                      THEN [withFile EXCEPT !.Source = CommitMessageSourceFromString(a[2])]
                      ELSE withFile
    IN  IF withSource.Source = "CommitSource" /\ Len(a) >= 3
        THEN [withSource EXCEPT !.CommitObject = a[3]]
        ELSE withSource

\* Prepare assigning the positional arguments before it counts them
PrepareOptionsPositionalFirst(opts, a, e, c) ==
    IF Len(a) = 0 THEN opts
    ELSE LET positional == PreparePositional(opts, a)
             defaults   == setDefaultOptions(positional)
         IN  IF ~(1 <= Len(a) /\ Len(a) <= 3) THEN positional
             ELSE IF Len(a) = 2 /\ positional.Source = "CommitSource" THEN positional
             ELSE IF ~c.readable THEN positional
             ELSE IF getEnvOrDefaultBoolPanics(e.enabled) THEN defaults
             ELSE IF getRepoConfigOptionOrDefaultBoolPanics(c, "prefixWithBranch")
                  THEN overrideFromEnv(defaults, e)
             ELSE overrideFromRepo(overrideFromEnv(defaults, e), c)

\* the fields of o when Prepare ends, or stops
PrepareOptions(opts, a, e, c) ==
    IF ~(1 <= Len(a) /\ Len(a) <= 3) THEN opts
    ELSE LET positional == PreparePositional(opts, a)
             defaults   == setDefaultOptions(positional)
         IN  IF Len(a) = 2 /\ positional.Source = "CommitSource" THEN positional
             ELSE IF ~c.readable THEN positional
             ELSE IF getEnvOrDefaultBoolPanics(e.enabled) THEN defaults
             ELSE IF getRepoConfigOptionOrDefaultBoolPanics(c, "prefixWithBranch")
                  THEN overrideFromEnv(defaults, e)
             ELSE overrideFromRepo(overrideFromEnv(defaults, e), c)

-----------------------------------------------------------------------------
(* Execute *)

\* the transformer methods Execute calls, in the order it calls them
ExecuteCalls(opts) ==
    (IF opts.PrefixWithBranch THEN <<"prependBranchName">> ELSE << >>)
    \o (IF Len(opts.CoauthorsMarkupBytes) > 0 THEN <<"appendCoauthorMarkup">> ELSE << >>)

\* o.CommitMessageBytes after the first if of Execute
ExecutePrefixed(opts, h) ==
    IF opts.PrefixWithBranch
    THEN prependBranchName(opts.CommitMessageBytes, opts.PrefixWithBranchTemplate, h)
    ELSE opts.CommitMessageBytes

\* Execute calling the prefix step whatever the flag says
ExecuteBytesIgnoringFlag(opts, h) ==
    LET prefixed == prependBranchName(opts.CommitMessageBytes,
                                      opts.PrefixWithBranchTemplate, h)
    IN  IF Len(opts.CoauthorsMarkupBytes) > 0
        THEN appendCoauthorMarkup(prefixed, opts.CoauthorsMarkupBytes)
        ELSE prefixed

\* Execute giving up when the prefix step returns an error
ExecuteBytesStoppingOnError(opts, h) ==
    IF opts.PrefixWithBranch /\ prependBranchNameFails(h)
    THEN opts.CommitMessageBytes
    ELSE IF Len(opts.CoauthorsMarkupBytes) > 0
    THEN appendCoauthorMarkup(ExecutePrefixed(opts, h), opts.CoauthorsMarkupBytes)
    ELSE ExecutePrefixed(opts, h)

\* Execute with its two steps in the other order
ExecuteBytesReversed(opts, h) ==
    LET withCoauthors ==
            IF Len(opts.CoauthorsMarkupBytes) > 0
            THEN appendCoauthorMarkup(opts.CommitMessageBytes, opts.CoauthorsMarkupBytes)
            ELSE opts.CommitMessageBytes
    IN  IF opts.PrefixWithBranch
        THEN prependBranchName(withCoauthors, opts.PrefixWithBranchTemplate, h)
        ELSE withCoauthors

\* o.CommitMessageBytes when Execute returns
ExecuteBytes(opts, h) ==
    IF Len(opts.CoauthorsMarkupBytes) > 0
    THEN appendCoauthorMarkup(ExecutePrefixed(opts, h), opts.CoauthorsMarkupBytes)
    ELSE ExecutePrefixed(opts, h)

-----------------------------------------------------------------------------
(* A run of the hook: main *)

Init ==
    /\ args \in ArgLists
    /\ env \in Envs
    /\ repoOpens \in BOOLEAN
    /\ repoConfig \in RepoConfigs
    /\ head \in Heads
    /\ mob \in MobResults
    /\ file \in Files
    /\ found = file
    /\ o = NewOptions
    /\ pc = "main"
    /\ io = << >>
    /\ calls = << >>
    /\ before = empty
    /\ err = FALSE

\* main opening the repository before it looks at its arguments
MainOpeningFirst ==
    /\ pc = "main"
    /\ pc' = IF ~repoOpens THEN "exit1"
             ELSE IF Len(args) = 1 /\ args[1] \in {"version", "help"} THEN "exit0"
             ELSE "Prepare"
    /\ io' = IF repoOpens /\ Len(args) = 1 /\ args[1] \in {"version", "help"}
             THEN io \o <<"PlainOpen", "print">>
             ELSE Append(io, "PlainOpen")
    /\ UNCHANGED <<world, file, o, calls, before, err>>

\* main up to `o := NewOptions(repo)`: version, help, opening the repository
Main ==
    /\ pc = "main"
    /\ pc' = IF Len(args) = 1 /\ args[1] \in {"version", "help"} THEN "exit0"
             ELSE IF ~repoOpens THEN "exit1"
             ELSE "Prepare"
    /\ io' = IF Len(args) = 1 /\ args[1] \in {"version", "help"}
             THEN Append(io, "print")
             ELSE Append(io, "PlainOpen")
    /\ UNCHANGED <<world, file, o, calls, before, err>>

\* o.Prepare(argsWithoutProg) and the checkError after it
Prepare ==
    /\ pc = "Prepare"
    /\ o' = PrepareOptions(o, args, env, repoConfig)
    /\ err' = (PrepareOutcome(args, env, repoConfig) = "error")
    /\ pc' = CASE PrepareOutcome(args, env, repoConfig) = "ok"    -> "readCommitMessageFromDisk"
               [] PrepareOutcome(args, env, repoConfig) = "panic" -> "panic"
               [] OTHER                                           -> "exit1"
    /\ UNCHANGED <<world, file, io, calls, before>>

\* readCommitMessageFromDisk taking a missing file for an error
readCommitMessageFromDiskStrict ==
    /\ pc = "readCommitMessageFromDisk"
    /\ io' = Append(io, "read")
    /\ o' = IF file.state # "ok" THEN o
            ELSE [o EXCEPT !.CommitMessageBytes = file.content]
    /\ err' = (file.state # "ok")
    /\ pc' = IF file.state # "ok" THEN "exit1" ELSE "readCoauthorsMessage"
    /\ UNCHANGED <<world, file, calls, before>>

\* o.readCommitMessageFromDisk() and the checkError after it
readCommitMessageFromDisk ==
    /\ pc = "readCommitMessageFromDisk"
    /\ io' = Append(io, "read")
    /\ o' = IF file.state = "unreadable" THEN o
            ELSE [o EXCEPT !.CommitMessageBytes =
                               IF file.state = "missing" THEN empty ELSE file.content]
    /\ err' = (file.state = "unreadable")
    /\ pc' = IF file.state = "unreadable" THEN "exit1" ELSE "readCoauthorsMessage"
    /\ UNCHANGED <<world, file, calls, before>>

\* execAndCaptureOutput handing over the output as the command printed it
execAndCaptureOutputUntrimmed(m) == IF m.ok THEN m.stdout ELSE empty

\* execAndCaptureOutput: the trimmed output, "" when the command fails
execAndCaptureOutput(m) == IF m.ok THEN TrimSpace(m.stdout) ELSE empty

\* o.readCoauthorsMessage() and the checkError after it
readCoauthorsMessage ==
    /\ pc = "readCoauthorsMessage"
    /\ o' = [o EXCEPT !.CoauthorsMarkupBytes = execAndCaptureOutput(mob)]
    /\ err' = FALSE
    /\ pc' = "Execute"
    /\ io' = Append(io, "mob-print")
    /\ UNCHANGED <<world, file, calls, before>>

\* o.Execute() and the checkError after it
Execute ==
    /\ pc = "Execute"
    /\ o' = [o EXCEPT !.CommitMessageBytes = ExecuteBytes(o, head)]
    /\ calls' = calls \o ExecuteCalls(o)
    /\ before' = IF Len(o.CoauthorsMarkupBytes) > 0 THEN ExecutePrefixed(o, head)
                 ELSE IF o.PrefixWithBranch THEN o.CommitMessageBytes
                 ELSE before
    /\ err' = FALSE
    /\ pc' = "WriteFile"
    /\ UNCHANGED <<world, file, io>>

\* main writing the file only when Execute changed the message
WriteFileOnlyWhenChanged ==
    /\ pc = "WriteFile"
    /\ IF o.CommitMessageBytes = (IF file.state = "ok" THEN file.content ELSE empty)
       THEN /\ pc' = "exit0"
            /\ UNCHANGED <<file, io>>
       ELSE IF file.writable
       THEN /\ file' = FileOf("ok", o.CommitMessageBytes, TRUE)
            /\ io' = Append(io, "write")
            /\ pc' = "exit0"
       ELSE /\ pc' = "exit1"
            /\ UNCHANGED <<file, io>>
    /\ UNCHANGED <<world, o, calls, before, err>>

\* os.WriteFile(o.CommitMessageFile, o.CommitMessageBytes, os.ModePerm)
WriteFile ==
    /\ pc = "WriteFile"
    /\ IF file.writable
       THEN /\ file' = FileOf("ok", o.CommitMessageBytes, TRUE)
            /\ io' = Append(io, "write")
            /\ pc' = "exit0"
       ELSE /\ pc' = "exit1"
            /\ UNCHANGED <<file, io>>
    /\ UNCHANGED <<world, o, calls, before, err>>

Next ==
    \/ Main
    \/ Prepare
    \/ readCommitMessageFromDisk
    \/ readCoauthorsMessage
    \/ Execute
    \/ WriteFile

Spec == Init /\ [][Next]_vars

-----------------------------------------------------------------------------
(* The methods called one by one on an options object, as the tests do *)

\* a test builds the object with the fields the method under test reads:
\* the ones of prependBranchName, or the ones of appendCoauthorMarkup
InitCalls ==
    /\ args = << >>
    /\ env = NoEnv
    /\ repoOpens = TRUE
    /\ repoConfig = NoRepoConfig
    /\ mob = MobOf(FALSE, empty)
    /\ file = FileOf("missing", empty, TRUE)
    /\ found = file
    /\ io = << >>
    /\ calls = << >>
    /\ err = FALSE
    /\ \E m \in Messages :
          /\ before = m
          /\ \/ /\ pc = "TestPrependBranchName"
                /\ head \in {HeadError, HeadOf(empty), HeadOf(BranchB)}
                /\ \E t \in Templates :
                      o = [NewOptions EXCEPT !.CommitMessageBytes = m,
                                             !.PrefixWithBranch = TRUE,
                                             !.PrefixWithBranchTemplate = t]
             \/ /\ pc = "TestAppendCoauthorMarkup"
                /\ head = HeadError
                /\ \E c \in CoauthorBlocks \cup {empty} :
                      o = [NewOptions EXCEPT !.CommitMessageBytes = m,
                                             !.CoauthorsMarkupBytes = c]

CallPrependBranchName ==
    /\ pc = "TestPrependBranchName"
    /\ Len(calls) < MaxCalls
    /\ before' = o.CommitMessageBytes
    /\ o' = [o EXCEPT !.CommitMessageBytes =
                 prependBranchName(o.CommitMessageBytes, o.PrefixWithBranchTemplate, head)]
    /\ err' = prependBranchNameFails(head)
    /\ calls' = Append(calls, "prependBranchName")
    /\ UNCHANGED <<world, file, pc, io>>

CallAppendCoauthorMarkup ==
    /\ pc = "TestAppendCoauthorMarkup"
    /\ Len(calls) < MaxCalls
    /\ before' = o.CommitMessageBytes
    /\ o' = [o EXCEPT !.CommitMessageBytes =
                 appendCoauthorMarkup(o.CommitMessageBytes, o.CoauthorsMarkupBytes)]
    /\ err' = FALSE
    /\ calls' = Append(calls, "appendCoauthorMarkup")
    /\ UNCHANGED <<world, file, pc, io>>

NextCalls == CallPrependBranchName \/ CallAppendCoauthorMarkup

SpecCalls == InitCalls /\ [][NextCalls]_vars

-----------------------------------------------------------------------------
(* Vocabulary of the properties *)

LastCall == IF calls = << >> THEN "none" ELSE calls[Len(calls)]

\* the last two calls were both the method m
CalledTwice(m) ==
    /\ Len(calls) >= 2
    /\ calls[Len(calls)] = m
    /\ calls[Len(calls) - 1] = m

Lines(s) == Split(s, "\n")

IsBlank(l) == TrimSpace(l) = empty

RECURSIVE DropTrailingBlank(_)
DropTrailingBlank(ls) ==
    IF ls # << >> /\ IsBlank(ls[Len(ls)])
    THEN DropTrailingBlank(SubSeq(ls, 1, Len(ls) - 1))
    ELSE ls

\* the lines of a text up to its last line that is not blank
TextLines(s) == DropTrailingBlank(Lines(s))

IsCommentLine(l) == HasPrefix(l, <<"#", " ">>)

\* the longest run of lines beginning with "# " that a text ends with
TrailingComments(s) ==
    LET ls == TextLines(s)
        n  == Len(ls)
        ks == {k \in 0..n : \A i \in (n - k + 1)..n : IsCommentLine(ls[i])}
    IN  SubSeq(ls, n - Max(ks) + 1, n)

EndsWithLines(s, block) ==
    LET ls == TextLines(s)
    IN  /\ Len(block) <= Len(ls)
        /\ SubSeq(ls, Len(ls) - Len(block) + 1, Len(ls)) = block

\* the message a run of the hook read, while the file is as it found it
MessageRead == IF file.state = "ok" THEN file.content ELSE empty

\* the accesses of the run to the commit message file, oldest first
FileAccesses == SelectSeq(io, LAMBDA a : a \in {"read", "write"})

\* what the run did outside the process, as a set
Did == {io[i] : i \in 1..Len(io)}

\* the transformer methods called, as a set
Called == {calls[i] : i \in 1..Len(calls)}

\* a trailer with the letter case of its key normalised
FoldKey(l) == [i \in 1..Len(l) |-> IF l[i] = "k" THEN "K" ELSE l[i]]

\* Co-authored-by: Name <email> and nothing else on the line
IsTrailerLine(l) ==
    /\ Len(l) >= 4
    /\ l[1] \in CoauthorKey
    /\ l[2] = " "
    /\ l[Len(l)] = ">"
    /\ \A i \in 3..(Len(l) - 1) : l[i] \notin {">", "#"}
    /\ \E i \in 3..(Len(l) - 1) : l[i] = "<"

TrailerLines(s) == {i \in 1..Len(Lines(s)) : IsTrailerLine(Lines(s)[i])}

\* the trailers a block supplies, one per line
Supplied(block) == Lines(TrimSpace(block))

Occurrences(s, trailer) ==
    Cardinality({i \in TrailerLines(s) : FoldKey(Lines(s)[i]) = FoldKey(trailer)})

-----------------------------------------------------------------------------
(* Properties *)

\* C1: applying prependBranchName a second time with the same template and
\* branch leaves the message exactly as the first application left it.
C1_PrependIdempotent ==
    CalledTwice("prependBranchName") => o.CommitMessageBytes = before

\* C2: when the message already holds well-formed trailer lines (in any
\* letter case of the key) and a block of well-formed trailers is supplied,
\* the output of appendCoauthorMarkup holds each supplied trailer on exactly
\* one line and no trailer line that the block does not supply; this is so
\* after every repetition of the call.
C2_TrailersDeduplicated ==
    ( /\ LastCall = "appendCoauthorMarkup"
      /\ o.CoauthorsMarkupBytes # empty
      /\ \A j \in 1..Len(Supplied(o.CoauthorsMarkupBytes)) :
             IsTrailerLine(Supplied(o.CoauthorsMarkupBytes)[j])
      /\ TrailerLines(before) # {} )
    => LET supplied == Supplied(o.CoauthorsMarkupBytes)
           out      == Lines(o.CommitMessageBytes)
       IN  /\ \A j \in 1..Len(supplied) :
                  Occurrences(o.CommitMessageBytes, supplied[j]) = 1
           /\ \A i \in TrailerLines(o.CommitMessageBytes) :
                  \E j \in 1..Len(supplied) : FoldKey(out[i]) = FoldKey(supplied[j])

\* C2 witness: the second run in a row over a message that held the trailer
\* of another person and the supplied one in lower case
C2_Witness ==
    /\ CalledTwice("appendCoauthorMarkup")
    /\ Supplied(o.CoauthorsMarkupBytes) = <<TrailerZoe, TrailerMal>>
    /\ Occurrences(before, TrailerZoe) = 1
    /\ Occurrences(o.CommitMessageBytes, TrailerZoe) = 1
    /\ Occurrences(o.CommitMessageBytes, TrailerMal) = 1

\* C2 witness of the first run
C2_WitnessFirstRun ==
    /\ calls = <<"appendCoauthorMarkup">>
    /\ Supplied(o.CoauthorsMarkupBytes) = <<TrailerZoe>>
    /\ \E i \in TrailerLines(before) : Lines(before)[i] = TrailerZoeLower
    /\ \E i \in TrailerLines(before) : Lines(before)[i] = TrailerMal
    /\ Occurrences(o.CommitMessageBytes, TrailerZoe) = 1
    /\ Occurrences(o.CommitMessageBytes, TrailerMal) = 0

\* C3: when the message ends with lines beginning with "# ", the output of
\* prependBranchName, and of appendCoauthorMarkup with a non-empty block, ends
\* with those same lines, verbatim and in order, followed by blank lines at
\* most.  Stated for the messages whose comment lines carry no white space at
\* their end, so that the trimming of the message's ends takes nothing from
\* them.
C3_CommentBlockPreserved ==
    ( /\ LastCall \in {"prependBranchName", "appendCoauthorMarkup"}
      /\ (LastCall = "appendCoauthorMarkup" => o.CoauthorsMarkupBytes # empty)
      /\ TrailingComments(before) # << >>
      /\ TrailingComments(TrimSpace(before)) = TrailingComments(before) )
    => EndsWithLines(o.CommitMessageBytes, TrailingComments(before))

\* C4: with an empty branch name prependBranchName returns the message as it
\* was, byte for byte, and no error.
C4_EmptyBranchNoOp ==
    ( /\ LastCall = "prependBranchName"
      /\ head.ok
      /\ head.name = empty )
    => (o.CommitMessageBytes = before /\ ~err)

\* C4 witness: called on a message with white space at its ends
C4_Witness ==
    /\ LastCall = "prependBranchName"
    /\ head = HeadOf(empty)
    /\ TrimSpace(before) # before
    /\ TrimSpace(before) # empty
    /\ o.CommitMessageBytes = before

\* C5: with an empty co-author block appendCoauthorMarkup returns the message
\* as it was, byte for byte: trailers in it stay, nothing is trimmed.
C5_EmptyCoauthorsNoOp ==
    ( /\ LastCall = "appendCoauthorMarkup"
      /\ o.CoauthorsMarkupBytes = empty )
    => o.CommitMessageBytes = before

\* C5 witness: called on a message with a trailer and white space at its ends
C5_Witness ==
    /\ LastCall = "appendCoauthorMarkup"
    /\ o.CoauthorsMarkupBytes = empty
    /\ TrailerLines(before) # {}
    /\ TrimSpace(before) # before
    /\ o.CommitMessageBytes = before

\* C6 as claimed: for a non-empty branch, when the trimmed message begins
\* neither with '#' nor with the formatted template, prependBranchName yields
\* the formatted template, one space, the trimmed message and "\n\n".
C6_PrefixAddedExactMatch ==
    LET prefix  == Sprintf(o.PrefixWithBranchTemplate, head.name)
        trimmed == TrimSpace(before)
    IN  ( /\ LastCall = "prependBranchName"
          /\ head.ok
          /\ head.name # empty
          /\ ~HasPrefix(trimmed, <<"#">>)
          /\ ~HasPrefix(trimmed, prefix) )
        => o.CommitMessageBytes = prefix \o <<" ">> \o trimmed \o <<"\n", "\n">>

\* C6 as amended: the same, when the trimmed message begins neither with '#'
\* nor with the formatted template stripped of the white space at its ends.
C6_PrefixAdded ==
    LET prefix  == Sprintf(o.PrefixWithBranchTemplate, head.name)
        trimmed == TrimSpace(before)
    IN  ( /\ LastCall = "prependBranchName"
          /\ head.ok
          /\ head.name # empty
          /\ ~HasPrefix(trimmed, <<"#">>)
          /\ ~HasPrefix(trimmed, TrimSpace(prefix)) )
        => o.CommitMessageBytes = prefix \o <<" ">> \o trimmed \o <<"\n", "\n">>

\* C6 witness: a prefix that ends in white space put before a message that
\* had white space at its ends
C6_Witness ==
    /\ calls = <<"prependBranchName">>
    /\ head = HeadOf(BranchB)
    /\ o.PrefixWithBranchTemplate = <<"[", "%", "s", "]", " ">>
    /\ TrimSpace(before) # before
    /\ TrimSpace(before) # empty
    /\ HasPrefix(o.CommitMessageBytes, <<"[", "b", "]", " ", " ">> \o TrimSpace(before))

\* C6 witness of the empty message
C6_WitnessEmptyMessage ==
    /\ calls = <<"prependBranchName">>
    /\ before = empty
    /\ o.CommitMessageBytes = <<"[", "b", "]", " ", "\n", "\n">>

\* C7: with a non-empty block appendCoauthorMarkup yields body, "\n\n", the
\* trimmed block, "\n\n", comments: cleaned is the message without its
\* trailers, trimmed; the split is at the first "# " wherever it stands in
\* cleaned; body is the trimmed text before it and comments the text from it
\* on; without a "# " all of cleaned is the body and there are no comments.
C7_AppendLayout ==
    LET cleaned == TrimSpace(ReplaceAll(before))
        hashes  == {p \in 1..(Len(cleaned) - 1) : cleaned[p] = "#" /\ cleaned[p + 1] = " "}
        body     == IF hashes = {} THEN cleaned
                    ELSE TrimSpace(SubSeq(cleaned, 1, Min(hashes) - 1))
        comments == IF hashes = {} THEN empty
                    ELSE SubSeq(cleaned, Min(hashes), Len(cleaned))
    IN  ( /\ LastCall = "appendCoauthorMarkup"
          /\ o.CoauthorsMarkupBytes # empty )
        => o.CommitMessageBytes =
               body \o <<"\n", "\n">> \o TrimSpace(o.CoauthorsMarkupBytes)
                    \o <<"\n", "\n">> \o comments

\* C7 witness: a block of two trailers put into a message whose first "# "
\* stands inside a line of the body
C7_Witness ==
    /\ calls = <<"appendCoauthorMarkup">>
    /\ o.CoauthorsMarkupBytes = TrailerZoe \o nl \o TrailerMal
    /\ HasPrefix(before, <<"a", " ", "#", " ", "1", "\n">>)
    /\ HasPrefix(o.CommitMessageBytes,
                 <<"a", "\n", "\n">> \o TrailerZoe \o nl \o TrailerMal
                     \o <<"\n", "\n", "#", " ", "1", "\n">>)

\* C8 as claimed: for a non-empty branch and a message whose trimmed text
\* begins with '#', prependBranchName yields the prefix on a line of its own,
\* a blank line, and then the lines of the message as they were.
C8_CommentOnlyLinesUntouched ==
    LET out      == Lines(o.CommitMessageBytes)
        original == TextLines(before)
        first    == Min({i \in 1..Len(original) : ~IsBlank(original[i])})
    IN  ( /\ LastCall = "prependBranchName"
          /\ head.ok
          /\ head.name # empty
          /\ HasPrefix(TrimSpace(before), <<"#">>) )
        => /\ Len(out) >= 3
           /\ TrimSpace(out[1]) = TrimSpace(Sprintf(o.PrefixWithBranchTemplate, head.name))
           /\ out[2] = empty
           /\ DropTrailingBlank(SubSeq(out, 3, Len(out)))
                  = SubSeq(original, first, Len(original))

\* C8 as amended: the same, the lines after the blank line being those of the
\* message with the white space at its two ends trimmed.
C8_CommentOnly ==
    LET out == Lines(o.CommitMessageBytes)
    IN  ( /\ LastCall = "prependBranchName"
          /\ head.ok
          /\ head.name # empty
          /\ HasPrefix(TrimSpace(before), <<"#">>) )
        => /\ Len(out) >= 3
           /\ TrimSpace(out[1]) = TrimSpace(Sprintf(o.PrefixWithBranchTemplate, head.name))
           /\ out[2] = empty
           /\ DropTrailingBlank(SubSeq(out, 3, Len(out))) = Lines(TrimSpace(before))

\* C8 witness: two comment lines, a blank line before them
C8_Witness ==
    /\ calls = <<"prependBranchName">>
    /\ head = HeadOf(BranchB)
    /\ o.PrefixWithBranchTemplate = DefaultTemplate
    /\ before = <<"\n", "#", " ", "c", "\n", "#", " ", "c">>
    /\ o.CommitMessageBytes = <<"[", "b", "]", " ", "\n", "\n",
                              "#", " ", "c", "\n", "#", " ", "c", "\n", "\n">>


\* C9: when prefixing is enabled and the current branch is in the resolved
\* exclusion list, Execute does not call the prefix step and the message gets
\* no prefix: what Execute leaves is the message read, with the co-author
\* block put into it when there is one.
C9_ExcludedBranchNotPrefixed ==
    ( /\ pc = "WriteFile"
      /\ o.PrefixWithBranch
      /\ head.ok
      /\ stringInSlice(o.PrefixWithBranchExclusions, head.name) )
    => /\ "prependBranchName" \notin {calls[i] : i \in 1..Len(calls)}
       /\ o.CommitMessageBytes =
              IF Len(o.CoauthorsMarkupBytes) > 0
              THEN appendCoauthorMarkup(MessageRead, o.CoauthorsMarkupBytes)
              ELSE MessageRead

\* C10: Execute calls each step at most once, the prefix step before the
\* co-author step; the co-author step works on what the prefix step left, so
\* that with both the message is appendCoauthorMarkup of prependBranchName of
\* the message read.
C10_ExecuteOrder ==
    /\ calls \in { << >>, <<"prependBranchName">>, <<"appendCoauthorMarkup">>,
                   <<"prependBranchName", "appendCoauthorMarkup">> }
    /\ pc = "WriteFile" =>
          LET prefixed == IF o.PrefixWithBranch
                          THEN prependBranchName(MessageRead, o.PrefixWithBranchTemplate, head)
                          ELSE MessageRead
          IN  /\ ("prependBranchName" \in {calls[i] : i \in 1..Len(calls)}) = o.PrefixWithBranch
              /\ ("appendCoauthorMarkup" \in {calls[i] : i \in 1..Len(calls)})
                     = (Len(o.CoauthorsMarkupBytes) > 0)
              /\ o.CommitMessageBytes =
                     IF Len(o.CoauthorsMarkupBytes) > 0
                     THEN appendCoauthorMarkup(prefixed, o.CoauthorsMarkupBytes)
                     ELSE prefixed

\* C10 witness: both steps ran on the empty message, where the other order
\* gives another text
C10_Witness ==
    /\ pc = "WriteFile"
    /\ calls = <<"prependBranchName", "appendCoauthorMarkup">>
    /\ head = HeadOf(BranchB)
    /\ MessageRead = empty
    /\ o.PrefixWithBranchTemplate = DefaultTemplate
    /\ o.CommitMessageBytes = <<"[", "b", "]", "\n", "\n">> \o TrailerZoe \o <<"\n", "\n">>
    /\ o.CommitMessageBytes #
           prependBranchName(appendCoauthorMarkup(MessageRead, o.CoauthorsMarkupBytes),
                             o.PrefixWithBranchTemplate, head)


\* C11: the accesses of a run to the commit message file are a prefix of
\* <one read, one overwrite>; as long as nothing was written the file is as
\* the run found it; a run that aborted wrote nothing; a run that went
\* through the hook flow to its end read once and wrote once, and the file
\* then holds the final message buffer, changed or not.
C11_FileAccesses ==
    /\ FileAccesses \in { << >>, <<"read">>, <<"read", "write">> }
    /\ "write" \notin Did => file = found
    /\ pc \in {"exit1", "panic"} => "write" \notin Did
    /\ (pc = "exit0" /\ "PlainOpen" \in Did) =>
           /\ FileAccesses = <<"read", "write">>
           /\ file = FileOf("ok", o.CommitMessageBytes, TRUE)

\* C11 witness: a run to the end in which no transformer method was called,
\* so that what it wrote is what it read
C11_Witness ==
    /\ pc = "exit0"
    /\ FileAccesses = <<"read", "write">>
    /\ calls = << >>
    /\ found.state = "ok"
    /\ found.content # empty
    /\ file.content = found.content

\* C11 witness of a run that aborted after it read the file
C11_WitnessAbort ==
    /\ pc = "exit1"
    /\ FileAccesses = <<"read">>
    /\ "mob-print" \in Did
    /\ file = found

\* C12: when the commit message file does not exist, readCommitMessageFromDisk
\* returns no error and leaves the empty message in the buffer, the run goes
\* on, Execute works on the empty message and the result is written to the
\* file.
C12_MissingFileIsEmptyMessage ==
    found.state = "missing" =>
        /\ "read" \in Did =>
               pc \in {"readCoauthorsMessage", "Execute", "WriteFile", "exit0"}
        /\ pc = "readCoauthorsMessage" => (~err /\ o.CommitMessageBytes = empty)
        /\ pc = "WriteFile" =>
               o.CommitMessageBytes =
                   ExecuteBytes([o EXCEPT !.CommitMessageBytes = empty], head)
        /\ (pc = "exit0" /\ "read" \in Did) =>
               file = FileOf("ok", o.CommitMessageBytes, TRUE)

\* C12 witness: the prefix of branch b written to a file that did not exist
C12_Witness ==
    /\ found.state = "missing"
    /\ pc = "exit0"
    /\ calls = <<"prependBranchName">>
    /\ head = HeadOf(BranchB)
    /\ file = FileOf("ok", <<"[", "b", "]", " ", "\n", "\n">>, TRUE)


\* C13: when `git mob-print` fails or prints nothing but white space,
\* readCoauthorsMessage returns no error and leaves an empty co-author block,
\* Execute does not call appendCoauthorMarkup, and the run gets to the write
\* with the message as the prefix step left it.
C13_MobFailureNotFatal ==
    ((~mob.ok \/ TrimSpace(mob.stdout) = empty) /\ "mob-print" \in Did) =>
        /\ o.CoauthorsMarkupBytes = empty
        /\ pc \in {"Execute", "WriteFile", "exit0", "exit1"}
        /\ pc = "Execute" => ~err
        /\ pc = "exit1" => ~file.writable
        /\ "appendCoauthorMarkup" \notin Called
        /\ pc = "WriteFile" =>
               /\ ~err
               /\ o.CommitMessageBytes =
                      IF o.PrefixWithBranch
                      THEN prependBranchName(MessageRead, o.PrefixWithBranchTemplate, head)
                      ELSE MessageRead

\* C13 witness: the command printed an empty line, the message got its prefix
C13_Witness ==
    /\ mob = MobOf(TRUE, nl)
    /\ pc = "WriteFile"
    /\ calls = <<"prependBranchName">>
    /\ head = HeadOf(BranchB)
    /\ MessageRead = <<"a">>
    /\ o.CommitMessageBytes = <<"[", "b", "]", " ", "a", "\n", "\n">>

\* C13 witness of the command failing
C13_WitnessFailure ==
    /\ ~mob.ok
    /\ pc = "exit0"
    /\ "mob-print" \in Did
    /\ calls = << >>
    /\ file.content = found.content

\* C14: when prefixing is enabled and Repo.Head() fails or the short name of
\* the branch is empty, the prefix step leaves the message as it was, Execute
\* returns no error and the co-author step runs on the message as read.
C14_NoBranchNoPrefix ==
    ( /\ pc = "WriteFile"
      /\ o.PrefixWithBranch
      /\ (~head.ok \/ head.name = empty) )
    => /\ ~err
       /\ ("appendCoauthorMarkup" \in Called) = (Len(o.CoauthorsMarkupBytes) > 0)
       /\ o.CommitMessageBytes =
              IF Len(o.CoauthorsMarkupBytes) > 0
              THEN appendCoauthorMarkup(MessageRead, o.CoauthorsMarkupBytes)
              ELSE MessageRead

\* C14 witness: Repo.Head() failed and the co-author block was put into the
\* message without a prefix
C14_Witness ==
    /\ pc = "WriteFile"
    /\ o.PrefixWithBranch
    /\ head = HeadError
    /\ calls = <<"prependBranchName", "appendCoauthorMarkup">>
    /\ MessageRead = <<"a">>
    /\ o.CommitMessageBytes = <<"a", "\n", "\n">> \o TrailerZoe \o <<"\n", "\n">>

\* C14 witness of the empty branch name
C14_WitnessEmptyName ==
    /\ pc = "WriteFile"
    /\ o.PrefixWithBranch
    /\ head = HeadOf(empty)
    /\ calls = <<"prependBranchName">>
    /\ MessageRead # empty
    /\ o.CommitMessageBytes = MessageRead


\* the repository configuration supplies a value for the key: the section
\* and the subsection are there and the key has a value that is not empty
RepoSupplies(key) ==
    /\ repoConfig.section
    /\ repoConfig.subsection
    /\ repoConfig.options[key] # << >>
    /\ repoConfig.options[key][1] # empty

RepoValue(key) == repoConfig.options[key][1]

\* C15: after Prepare each of the three settings has the value of the
\* repository configuration when that supplies one, otherwise the value of
\* the environment variable when it is set, otherwise the default: false,
\* {main, develop}, "[%s]".
C15_Precedence ==
    pc = "readCommitMessageFromDisk" =>
        /\ o.PrefixWithBranch =
               IF RepoSupplies("prefixWithBranch")
               THEN RepoValue("prefixWithBranch") \in TrueWords
               ELSE IF env.enabled # empty THEN env.enabled \in TrueWords
               ELSE FALSE
        /\ o.PrefixWithBranchExclusions =
               IF RepoSupplies("prefixBranchExclusions")
               THEN Split(RepoValue("prefixBranchExclusions"), ",")
               ELSE IF env.exclusions # empty THEN Split(env.exclusions, ",")
               ELSE <<BranchMain, BranchDev>>
        /\ o.PrefixWithBranchTemplate =
               IF RepoSupplies("prefixWithBranchTemplate")
               THEN RepoValue("prefixWithBranchTemplate")
               ELSE IF env.template # empty THEN env.template
               ELSE DefaultTemplate


\* a value that is not empty and that strconv.ParseBool does not accept is
\* given for the flag, by the environment variable or by the key of the
\* repository configuration
NonBooleanFlag ==
    \/ /\ env.enabled # empty
       /\ env.enabled \notin TrueWords \cup FalseWords
    \/ /\ RepoSupplies("prefixWithBranch")
       /\ RepoValue("prefixWithBranch") \notin TrueWords \cup FalseWords

\* the arguments are the one word version, or the one word help
VersionOrHelp == Len(args) = 1 /\ args[1] \in {"version", "help"}

\* C16: with a non-boolean value for the flag the run ends while the options
\* are resolved at the latest: it never gets to read the commit message file,
\* to run the co-author command, to call a transformer method or to write;
\* it does not end with exit code 0 unless it only printed version or help.
C16_NonBooleanAborts ==
    NonBooleanFlag =>
        /\ pc \in {"main", "Prepare", "exit0", "exit1", "panic"}
        /\ pc = "exit0" => VersionOrHelp
        /\ Did \cap {"read", "mob-print", "write"} = {}
        /\ calls = << >>
        /\ o.CommitMessageBytes = empty
        /\ file = found

\* C16 witness: the run stopped in Prepare on the value of the environment
\* variable, the repository and the arguments being in order
C16_Witness ==
    /\ pc = "panic"
    /\ env.enabled = <<"y", "e", "s">>
    /\ ~RepoSupplies("prefixWithBranch")
    /\ repoConfig.readable
    /\ Len(args) = 1
    /\ io = <<"PlainOpen">>

\* C16 witness of the value in the repository configuration
C16_WitnessRepo ==
    /\ pc = "panic"
    /\ env = NoEnv
    /\ RepoValue("prefixWithBranch") = <<"o", "n">>
    /\ Len(args) = 1
    /\ io = <<"PlainOpen">>

\* C17: with no argument, or more than three, Prepare returns an error with
\* no field of the options set, and the run ends with exit code 1 without a
\* read of the file, a run of the co-author command or a write.
C17_ArgCount ==
    (Len(args) = 0 \/ Len(args) > 3) =>
        /\ o = NewOptions
        /\ pc \in {"main", "Prepare", "exit1"}
        /\ (pc = "exit1" /\ repoOpens) => err
        /\ Did \subseteq {"PlainOpen"}
        /\ calls = << >>
        /\ file = found

\* C17 witness: four arguments
C17_Witness ==
    /\ Len(args) = 4
    /\ pc = "exit1"
    /\ err
    /\ o = NewOptions
    /\ io = <<"PlainOpen">>

\* C17 witness of no argument
C17_WitnessNoArgument ==
    /\ args = << >>
    /\ pc = "exit1"
    /\ err
    /\ o = NewOptions

\* C18: when the only argument is version or help the run prints and ends:
\* the repository is not opened, no option is resolved, the co-author command
\* is not run and the file is neither read nor written.
C18_VersionHelp ==
    VersionOrHelp =>
        /\ pc \in {"main", "exit0"}
        /\ io = IF pc = "exit0" THEN <<"print">> ELSE << >>
        /\ o = NewOptions
        /\ calls = << >>
        /\ file = found

\* C18 witness: help printed where the repository would not have opened
C18_Witness ==
    /\ args = <<"help">>
    /\ ~repoOpens
    /\ pc = "exit0"
    /\ io = <<"print">>

\* C18 witness of version
C18_WitnessVersion ==
    /\ args = <<"version">>
    /\ pc = "exit0"
    /\ io = <<"print">>


\* C19: with a co-author block that is empty once trimmed (the empty block,
\* or spaces and newlines only) appendCoauthorMarkup returns the message as
\* it was, byte for byte.
C19_BlankBlockNoOp ==
    ( /\ LastCall = "appendCoauthorMarkup"
      /\ TrimSpace(o.CoauthorsMarkupBytes) = empty )
    => o.CommitMessageBytes = before

Strip(s) == SelectSeq(s, LAMBDA ch : ch \notin WhiteSpace)

\* a line that begins with the trailer key, in either letter case, and a space
BeginsWithKey(l) == Len(l) >= 2 /\ l[1] \in {"K", "k"} /\ l[2] = " "

\* the characters, white space aside, of the lines of a text that do not
\* begin with the trailer key
KeptText(s) ==
    LET ls == Lines(s)
    IN  Strip(Join([i \in 1..Len(ls) |-> IF BeginsWithKey(ls[i]) THEN empty ELSE ls[i]]))

\* a is what is left of b when some elements of b are taken out
RECURSIVE IsSubsequence(_, _)
IsSubsequence(a, b) ==
    IF a = << >> THEN TRUE
    ELSE IF b = << >> THEN FALSE
    ELSE IF Head(a) = Head(b) THEN IsSubsequence(Tail(a), Tail(b))
    ELSE IsSubsequence(a, Tail(b))

\* C21: white space aside, appendCoauthorMarkup deletes no character of a
\* line that does not begin with the trailer key: the text of those lines is
\* still in the output, in order, also when a line that begins with the key
\* has no '>' on it.
C21_RemovalPerLine ==
    ( /\ LastCall = "appendCoauthorMarkup"
      /\ TrimSpace(o.CoauthorsMarkupBytes) # empty )
    => IsSubsequence(KeptText(before), Strip(o.CommitMessageBytes))


\* the key is there, under the section and the subsection
KeyPresent(key) ==
    /\ repoConfig.section
    /\ repoConfig.subsection
    /\ repoConfig.options[key] # << >>

\* the three settings as the defaults and the environment give them: what
\* they are when overrideFromRepo is called
FlagBeforeRepo       == IF env.enabled # empty THEN env.enabled \in TrueWords ELSE FALSE
ExclusionsBeforeRepo == IF env.exclusions # empty THEN Split(env.exclusions, ",")
                        ELSE <<BranchMain, BranchDev>>
TemplateBeforeRepo   == IF env.template # empty THEN env.template ELSE DefaultTemplate

\* C22: when the section, the subsection or the key is missing in the
\* repository configuration, overrideFromRepo leaves the setting of that key
\* with the value it had before the call.
C22_MissingKeyKeeps ==
    pc = "readCommitMessageFromDisk" =>
        /\ ~KeyPresent("prefixWithBranch") => o.PrefixWithBranch = FlagBeforeRepo
        /\ ~KeyPresent("prefixBranchExclusions") =>
               o.PrefixWithBranchExclusions = ExclusionsBeforeRepo
        /\ ~KeyPresent("prefixWithBranchTemplate") =>
               o.PrefixWithBranchTemplate = TemplateBeforeRepo

\* C22 witness: the key of the flag is there and switches prefixing off, the
\* other two keys are missing and the settings keep the values of the
\* environment and of the defaults
C22_Witness ==
    /\ pc = "readCommitMessageFromDisk"
    /\ KeyPresent("prefixWithBranch")
    /\ ~KeyPresent("prefixBranchExclusions")
    /\ ~KeyPresent("prefixWithBranchTemplate")
    /\ env = EnvOf(<<"1">>, empty, <<"%", "s", ":">>)
    /\ ~o.PrefixWithBranch
    /\ o.PrefixWithBranchExclusions = <<BranchMain, BranchDev>>
    /\ o.PrefixWithBranchTemplate = <<"%", "s", ":">>

\* C22 witness of the subsection missing
C22_WitnessNoSubsection ==
    /\ pc = "readCommitMessageFromDisk"
    /\ repoConfig.section
    /\ ~repoConfig.subsection
    /\ o.PrefixWithBranch
    /\ o.PrefixWithBranchExclusions = <<BranchB>>

\* C23: a layer that gives an empty value overrides nothing: with the key
\* of the repository configuration there and empty the setting has the value
\* of the environment and the defaults, and with the environment variable
\* empty and no value in the repository configuration it has the default.
C23_EmptyValueKeeps ==
    pc = "readCommitMessageFromDisk" =>
        /\ (KeyPresent("prefixWithBranch") /\ RepoValue("prefixWithBranch") = empty)
               => o.PrefixWithBranch = FlagBeforeRepo
        /\ (KeyPresent("prefixBranchExclusions") /\ RepoValue("prefixBranchExclusions") = empty)
               => o.PrefixWithBranchExclusions = ExclusionsBeforeRepo
        /\ (KeyPresent("prefixWithBranchTemplate") /\ RepoValue("prefixWithBranchTemplate") = empty)
               => o.PrefixWithBranchTemplate = TemplateBeforeRepo
        /\ (env.enabled = empty /\ ~RepoSupplies("prefixWithBranch"))
               => ~o.PrefixWithBranch
        /\ (env.exclusions = empty /\ ~RepoSupplies("prefixBranchExclusions"))
               => o.PrefixWithBranchExclusions = <<BranchMain, BranchDev>>
        /\ (env.template = empty /\ ~RepoSupplies("prefixWithBranchTemplate"))
               => o.PrefixWithBranchTemplate = DefaultTemplate

\* C24: with prefixing disabled and an empty co-author block Execute calls
\* no transformer method and leaves the message as it was read, byte for
\* byte, and the file is written with the content it had.
C24_NothingToDo ==
    (~o.PrefixWithBranch /\ o.CoauthorsMarkupBytes = empty) =>
        /\ pc = "WriteFile" => (calls = << >> /\ o.CommitMessageBytes = MessageRead)
        /\ (pc = "exit0" /\ "write" \in Did) =>
               file.content = IF found.state = "ok" THEN found.content ELSE empty

\* C24 witness: a message with white space at its ends, a trailer and a
\* comment line written back as it was
C24_Witness ==
    /\ pc = "exit0"
    /\ "write" \in Did
    /\ ~o.PrefixWithBranch
    /\ o.CoauthorsMarkupBytes = empty
    /\ found.content = <<"a", "\n", "\n">> \o TrailerMal \o <<"\n", "#", " ", "c", "\n">>
    /\ file.content = found.content

\* C25: for a non-empty block of well-formed trailers a second call of
\* appendCoauthorMarkup leaves the message exactly as the first call left it.
C25_AppendIdempotent ==
    ( /\ CalledTwice("appendCoauthorMarkup")
      /\ o.CoauthorsMarkupBytes # empty
      /\ \A j \in 1..Len(Supplied(o.CoauthorsMarkupBytes)) :
             IsTrailerLine(Supplied(o.CoauthorsMarkupBytes)[j]) )
    => o.CommitMessageBytes = before

\* C26: with one, two or three arguments, whatever the source argument is,
\* Prepare ends without a run-time panic and CommitMessageFile is the first
\* argument.  Stated for the runs in which the flag has no non-boolean value.
C26_PrepareNoPanic ==
    ( /\ 1 <= Len(args) /\ Len(args) <= 3
      /\ ~VersionOrHelp
      /\ ~NonBooleanFlag
      /\ pc \notin {"main", "Prepare"}
      /\ repoOpens )
    => (pc # "panic" /\ o.CommitMessageFile = args[1])

=============================================================================
